---- MODULE Spec2Model ----
(***************************************************************************)
(* Model of the Zaf's Kitchen admin back office:                           *)
(*   - the Electron main process' ipcMain handlers over the bookings,      *)
(*     staff and usertable tables (src/unnamed/part_002);                  *)
(*   - the companion express server's OTP login (src/unnamed/part_003).    *)
(* Time is counted in hours for the booking tables and in minutes for the  *)
(* OTP server; the two processes have their own specifications.            *)
(***************************************************************************)
EXTENDS Integers, Sequences, FiniteSets

\* ------------------------------------------------------------------ bounds
MaxNow == 30          \* the booking clock stops advancing here (hours)
TickHours == 10       \* granularity of the booking clock (hours)
MaxWriteNow == 10     \* last hour of the runs over the five writing handlers
MaxAttempts == 6      \* largest maxAttempts passed to waitForServer
MaxOtpNow == 10       \* the OTP server clock stops advancing here (minutes)
OtpTickMinutes == 5   \* granularity of the OTP server clock (minutes)
RandDen == 1000000    \* Math.random() is modelled as k / RandDen

\* --------------------------------------------------------------- constants
\* SQL NULL of a TEXT column and of a TIMESTAMP column
NULL == "NULL"
NullTs == -1
\* 20 * 60 * 60 * 1000 ms, in hours
PaymentDeadlineHours == 20
DeadlineReason == "Payment not received within 20-hour deadline"

\* rows of the bookings table, and an id that matches no row
BookingIds == {"b1"}
NoSuchBooking == "b9"
BookingIdArgs == BookingIds \cup {NoSuchBooking}
\* the table with a second row, for the runs that follow the sweep over rows
\* in different states
SweepBookingIds == {"b1", "b2"}

\* the statuses the data model declares, and the strings a caller can pass
BookingStatuses == {"pending", "approved", "rejected", "cancelled", "completed"}
StatusArgs == BookingStatuses \cup {"archived"}
\* cancellationReason as passed by the renderer: null, '' or a text
ReasonArgs == {NULL, "", "Fully booked"}
FeedbackArgs == {"Great event"}

\* the customer of the bookings, and the prices of a booking (pesos)
CustomerName == "Ana Cruz"
CustomerEmail == "ana@mail"
PackagePrice == 10000
\* the service charge the renderer passes: description, new charge, new total
ChargeDescription == "Delivery"
NewServiceCharge == 500
NewTotal == PackagePrice + NewServiceCharge
\* what a user_email column of bookings can hold: the address the customer
\* booked with, or nothing
UserEmailColumn == {CustomerEmail, NULL}

\* rows of the staff and usertable tables
StaffIds == {"s1"}
StaffIdArgs == StaffIds \cup {"s9"}
StaffStatuses == {"pending", "approved", "rejected", "suspended"}
StaffStatusArgs == StaffStatuses \cup {"archived"}
UserIds == {"u1"}
UserIdArgs == UserIds \cup {"u9"}
UserStatuses == {"active", "blocked"}
UserStatusArgs == UserStatuses \cup {"deleted"}

VARIABLES
  bookings,    \* the bookings table: id -> row
  staff,       \* the staff table: id -> row
  users,       \* usertable: id -> row
  now,         \* NOW() / Date.now() of the Electron process, in hours
  ipcResult,   \* what the last ipcMain handler returned
  mailReq,     \* the e-mails the last ipcMain handler asked the provider to send
  adminEmail,  \* ADMIN_EMAIL of the express server
  otpStore,    \* otpStore: e-mail spelling -> NoOtp or [otp, expires]
  otpNow,      \* Date.now() of the express server, in minutes
  httpRes,     \* the last HTTP request and its JSON answer
  brevoReq,    \* the request the last HTTP handler posted to the e-mail provider
  serverStartAttempts,  \* the module-level counter of the Electron main process
  serverProcess,        \* TRUE while serverProcess holds a spawned child
  wait         \* the waitForServer invocations: where each stands, what it did

vars == <<bookings, staff, users, now, ipcResult, mailReq,
          adminEmail, otpStore, otpNow, httpRes, brevoReq,
          serverStartAttempts, serverProcess, wait>>
launcherVars == <<serverStartAttempts, serverProcess, wait>>
serverVars == <<adminEmail, otpStore, otpNow, httpRes, brevoReq>>
electronVars == <<bookings, staff, users, now, ipcResult, mailReq, launcherVars>>

\* ================================================================ bookings
\* A row as the customer-facing site inserts it: pending, unpaid, nothing set.
NewBooking ==
  [booking_status |-> "pending", payment_status |-> "unpaid",
   cancellation_reason |-> NULL, approval_date |-> NullTs,
   payment_deadline |-> NullTs, event_feedback |-> NULL,
   completion_date |-> NullTs, updated_at |-> 0,
   user_id |-> "u1", full_name |-> CustomerName, user_email |-> CustomerEmail,
   package_price |-> PackagePrice, service_charge |-> 0,
   charge_description |-> NULL, total_price |-> PackagePrice]

\* What a handler returns: its name, success, the error text and the ids of
\* the rows its statement returned (RETURNING).
Result(op, success, error, rows) ==
  [op |-> op, success |-> success, error |-> error, rows |-> rows]

DbError == "db error"

\* catch (err) { return { success: false, error: err.message } }
QueryFailed(op) ==
  /\ ipcResult' = Result(op, FALSE, DbError, {})
  /\ mailReq' = {}
  /\ UNCHANGED <<bookings, staff, users, now, serverVars, launcherVars>>

\* UPDATE bookings ... WHERE id = $n RETURNING *, then the rows.length test
UpdateOneUnchecked(op, id, row) ==
  /\ bookings' = IF id \in DOMAIN bookings THEN [bookings EXCEPT ![id] = row]
                                            ELSE bookings
  /\ ipcResult' = Result(op, TRUE, NULL, {id} \cap DOMAIN bookings)
  /\ mailReq' = {}
  /\ UNCHANGED <<staff, users, now, serverVars, launcherVars>>

UpdateOne(op, id, row) ==
  /\ IF id \in DOMAIN bookings
       THEN /\ bookings' = [bookings EXCEPT ![id] = row]
            /\ ipcResult' = Result(op, TRUE, NULL, {id})
       ELSE /\ bookings' = bookings
            /\ ipcResult' = Result(op, FALSE, "Booking not found", {})
  /\ mailReq' = {}
  /\ UNCHANGED <<staff, users, now, serverVars, launcherVars>>

\* JavaScript truthiness of a reason argument
Truthy(s) == s # NULL /\ s # ""

StatusRowResetsDeadline(b, status, cancellationReason) ==
  [b EXCEPT !.booking_status = status,
            !.cancellation_reason = IF status = "rejected" /\ Truthy(cancellationReason)
                                      THEN cancellationReason ELSE NULL,
            !.approval_date = IF status = "approved" THEN now ELSE @,
            !.payment_deadline = NullTs,
            !.updated_at = now]

\* the row update-booking-status writes (three branches)
StatusRow(b, status, cancellationReason) ==
  IF status = "rejected" /\ Truthy(cancellationReason)
    THEN [b EXCEPT !.booking_status = status,
                   !.cancellation_reason = cancellationReason,
                   !.updated_at = now]
    ELSE IF status = "approved"
      THEN [b EXCEPT !.booking_status = status,
                     !.cancellation_reason = NULL,
                     !.approval_date = now,
                     !.updated_at = now]
      ELSE [b EXCEPT !.booking_status = status,
                     !.cancellation_reason = NULL,
                     !.updated_at = now]

UpdateBookingStatus(bookingId, status, cancellationReason, dbFails) ==
  IF dbFails
    THEN QueryFailed("update-booking-status")
    ELSE UpdateOne("update-booking-status", bookingId,
                   StatusRow(bookings[bookingId], status, cancellationReason))

PaidRowToggle(b) ==
  [b EXCEPT !.payment_status = IF b.payment_status = "paid" THEN "unpaid" ELSE "paid",
            !.updated_at = now]

PaidRow(b) == [b EXCEPT !.payment_status = "paid", !.updated_at = now]

MarkPaymentAsPaid(bookingId, dbFails) ==
  IF dbFails
    THEN QueryFailed("mark-payment-as-paid")
    ELSE UpdateOne("mark-payment-as-paid", bookingId, PaidRow(bookings[bookingId]))

\* SET charge_description = $1, service_charge = $2, total_price = $3
ChargedRow(b, description, newServiceCharge, newTotal) ==
  [b EXCEPT !.charge_description = description, !.service_charge = newServiceCharge,
            !.total_price = newTotal, !.updated_at = now]

AddServiceCharge(bookingId, description, newServiceCharge, newTotal, dbFails) ==
  IF dbFails
    THEN QueryFailed("add-service-charge")
    ELSE UpdateOne("add-service-charge", bookingId,
                   ChargedRow(bookings[bookingId], description, newServiceCharge, newTotal))

CompletedRow(b, feedback) ==
  [b EXCEPT !.booking_status = "completed", !.event_feedback = feedback,
            !.completion_date = now, !.updated_at = now]

CompleteBooking(bookingId, feedback, dbFails) ==
  IF dbFails
    THEN QueryFailed("complete-booking")
    ELSE UpdateOne("complete-booking", bookingId,
                   CompletedRow(bookings[bookingId], feedback))

DeadlineRow(b) ==
  [b EXCEPT !.payment_deadline = now + PaymentDeadlineHours, !.updated_at = now]

SetPaymentDeadline(bookingId, dbFails) ==
  IF dbFails
    THEN QueryFailed("set-payment-deadline")
    ELSE UpdateOne("set-payment-deadline", bookingId, DeadlineRow(bookings[bookingId]))

ExpiredOrDue(b) ==
  /\ b.booking_status = "approved"
  /\ b.payment_status # "paid"
  /\ b.payment_deadline # NullTs
  /\ b.payment_deadline <= now

\* the WHERE clause of the sweep
Expired(b) ==
  /\ b.booking_status = "approved"
  /\ b.payment_status # "paid"
  /\ b.payment_deadline # NullTs
  /\ b.payment_deadline < now

CancelledRowKeepsStatus(b) ==
  [b EXCEPT !.updated_at = now, !.cancellation_reason = DeadlineReason]

CancelledRow(b) ==
  [b EXCEPT !.booking_status = "cancelled", !.updated_at = now,
            !.cancellation_reason = DeadlineReason]

\* the rows of table t the sweep's WHERE clause selects
ExpiredRows(t) == {id \in DOMAIN t : Expired(t[id])}

\* table t after the sweep's UPDATE
SweptTable(t) ==
  [id \in DOMAIN t |-> IF Expired(t[id]) THEN CancelledRow(t[id]) ELSE t[id]]

\* one sendBookingCancellationEmail call per returned row, with the row's
\* RETURNING id, full_name, user_email
CancellationMails(t, rows) ==
  {[kind |-> "booking-cancellation", ref |-> id,
    full_name |-> t[id].full_name, to |-> t[id].user_email] : id \in rows}

CheckExpiredBookings(dbFails) ==
  IF dbFails
    THEN QueryFailed("check-expired-bookings")
    ELSE LET rows == ExpiredRows(bookings)
         IN /\ bookings' = SweptTable(bookings)
            /\ ipcResult' = Result("check-expired-bookings", TRUE, NULL, rows)
            /\ mailReq' = CancellationMails(bookings', rows)
            /\ UNCHANGED <<staff, users, now, serverVars, launcherVars>>

\* the wall clock moves on between two calls
Tick ==
  /\ now + TickHours <= MaxNow
  /\ now' = now + TickHours
  /\ UNCHANGED <<bookings, staff, users, ipcResult, mailReq, serverVars, launcherVars>>

\* ========================================================= staff and users
NewStaff == [status |-> "pending", rejection_reason |-> NULL, updated_at |-> 0]
NewUser == [status |-> "active", email |-> CustomerEmail, updated_at |-> 0]

StaffRow(s, status, rejectionReason) ==
  IF status = "rejected" /\ Truthy(rejectionReason)
    THEN [s EXCEPT !.status = status, !.rejection_reason = rejectionReason,
                   !.updated_at = now]
    ELSE [s EXCEPT !.status = status, !.rejection_reason = NULL,
                   !.updated_at = now]

\* the e-mail update-staff-status requests after a successful update
StaffMails(staffId, status, rejectionReason) ==
  IF status = "approved"
    THEN {[kind |-> "staff-approval", ref |-> staffId]}
    ELSE IF status = "rejected" /\ Truthy(rejectionReason)
      THEN {[kind |-> "staff-rejection", ref |-> staffId]}
      ELSE {}

UpdateStaffStatus(staffId, status, rejectionReason, dbFails) ==
  IF dbFails
    THEN QueryFailed("update-staff-status")
    ELSE /\ IF staffId \in StaffIds
              THEN /\ staff' = [staff EXCEPT ![staffId] =
                                  StaffRow(staff[staffId], status, rejectionReason)]
                   /\ ipcResult' = Result("update-staff-status", TRUE, NULL, {staffId})
                   /\ mailReq' = StaffMails(staffId, status, rejectionReason)
              ELSE /\ staff' = staff
                   /\ ipcResult' = Result("update-staff-status", FALSE, "Staff not found", {})
                   /\ mailReq' = {}
         /\ UNCHANGED <<bookings, users, now, serverVars, launcherVars>>

UserRow(u, status) == [u EXCEPT !.status = status, !.updated_at = now]

UpdateUserStatus(userId, status, dbFails) ==
  IF dbFails
    THEN QueryFailed("update-user-status")
    ELSE /\ IF userId \in UserIds
              THEN /\ users' = [users EXCEPT ![userId] = UserRow(users[userId], status)]
                   /\ ipcResult' = Result("update-user-status", TRUE, NULL, {userId})
              ELSE /\ users' = users
                   /\ ipcResult' = Result("update-user-status", FALSE, "User not found", {})
         /\ mailReq' = {}
         /\ UNCHANGED <<bookings, staff, now, serverVars, launcherVars>>

\* ============================================================== OTP server
\* Strings the server compares are sequences of characters, so that
\* String.prototype.toLowerCase is a computation.
LowerChar(c) == CASE c = "Z" -> "z" [] c = "K" -> "k" [] OTHER -> c
ToLowerCase(s) == [i \in DOMAIN s |-> LowerChar(s[i])]

\* req.body.email missing: undefined, on which .toLowerCase() throws
Undefined == <<"undefined">>
\* process.env.SMTP_EMAIL || 'zafskitchen95@gmail.com', two letters standing
\* for the address: the default and a configured spelling with a capital
AdminEmailConfigs == {<<"z", "k">>, <<"Z", "k">>}
EmailArgs == {<<"z", "k">>, <<"Z", "k">>, <<"k", "z">>, Undefined}
StoreKeys == EmailArgs \ {Undefined}

OtpExpiryMinutes == 5
NoOtp == [otp |-> <<>>, expires |-> NullTs]
NoToken == "none"
Tokens == {"tok"}
NoRequest == [to |-> <<>>, otp |-> <<>>]

Digits == <<"0", "1", "2", "3", "4", "5", "6", "7", "8", "9">>
RECURSIVE ToString(_)
\* Number.prototype.toString of a non-negative integer
ToString(n) == IF n < 10 THEN <<Digits[n + 1]>>
               ELSE Append(ToString(n \div 10), Digits[(n % 10) + 1])

\* Math.floor(Math.random() * 900000) for Math.random() = k / RandDen, that is
\* (k * 900000) \div RandDen, multiplied in two steps to stay within 32 bits
RandomTimes900000(k) ==
  LET a == k * 900
  IN ((a \div RandDen) * 1000) + (((a % RandDen) * 1000) \div RandDen)

GenerateOtpWide(k) == ToString(100000 + RandomTimes900000(k) + (k \div 9))

\* Math.floor(100000 + Math.random() * 900000).toString()
GenerateOtp(k) == ToString(100000 + RandomTimes900000(k))

RandNums == {0, RandDen - 1}
OtpArgs == {GenerateOtp(k) : k \in RandNums} \cup {<<"0", "0", "0", "0", "0", "0">>}
BrevoOutcomes == {"201", "500", "throws"}

\* a request (endpoint, body.email, body.otp) and the JSON it is answered with
NoCode == <<>>
HttpRes(op, email, otp, success, message, token) ==
  [op |-> op, email |-> email, otp |-> otp,
   success |-> success, message |-> message, token |-> token]

OtpExpiredLate(stored) == otpNow > stored.expires + OtpExpiryMinutes

\* line 165: Date.now() > stored.expires
OtpExpired(stored) == otpNow > stored.expires

CodeMismatchNever(stored, otp) == FALSE

\* line 175: stored.otp !== otp
CodeMismatch(stored, otp) == stored.otp # otp

DeleteOtpForgotten(email) == otpStore

\* otpStore.delete(email)
DeleteOtp(email) == [otpStore EXCEPT ![email] = NoOtp]

SendAuthorizedAlways(email) == TRUE

\* line 31: email.toLowerCase() !== ADMIN_EMAIL.toLowerCase()
SendAuthorized(email) == ToLowerCase(email) = ToLowerCase(adminEmail)

\* line 146: the same comparison in /api/verify-otp
VerifyAuthorized(email) == ToLowerCase(email) = ToLowerCase(adminEmail)

SendOtp(email, k, brevo) ==
  /\ IF email = Undefined
       THEN \* TypeError inside the try block
            /\ httpRes' = HttpRes("send-otp", email, NoCode, FALSE,
                                  "Failed to send OTP. Please try again.", NoToken)
            /\ UNCHANGED otpStore
            /\ brevoReq' = NoRequest
       ELSE IF ~SendAuthorized(email)
         THEN /\ httpRes' = HttpRes("send-otp", email, NoCode, FALSE,
                   "Unauthorized email. Only admin can access this system.", NoToken)
              /\ UNCHANGED otpStore
              /\ brevoReq' = NoRequest
         ELSE LET otp == GenerateOtp(k)
              IN /\ otpStore' = [otpStore EXCEPT ![email] =
                                   [otp |-> otp, expires |-> otpNow + OtpExpiryMinutes]]
                 /\ brevoReq' = [to |-> email, otp |-> otp]
                 /\ httpRes' = IF brevo = "201"
                      THEN HttpRes("send-otp", email, NoCode, TRUE,
                                   "OTP sent successfully to your email", NoToken)
                      ELSE HttpRes("send-otp", email, NoCode, FALSE,
                                   "Failed to send OTP. Please try again.", NoToken)
  /\ UNCHANGED <<adminEmail, otpNow, electronVars>>

VerifyOtp(email, otp, token) ==
  /\ brevoReq' = NoRequest
  /\ IF email = Undefined
       THEN /\ httpRes' = HttpRes("verify-otp", email, otp, FALSE,
                                  "Verification failed. Please try again.", NoToken)
            /\ UNCHANGED otpStore
       ELSE IF ~VerifyAuthorized(email)
         THEN /\ httpRes' = HttpRes("verify-otp", email, otp, FALSE, "Unauthorized access", NoToken)
              /\ UNCHANGED otpStore
         ELSE LET stored == otpStore[email]
              IN IF stored = NoOtp
                   THEN /\ httpRes' = HttpRes("verify-otp", email, otp, FALSE,
                             "OTP expired or not found. Please request a new one.", NoToken)
                        /\ UNCHANGED otpStore
                   ELSE IF OtpExpired(stored)
                     THEN /\ otpStore' = DeleteOtp(email)
                          /\ httpRes' = HttpRes("verify-otp", email, otp, FALSE,
                               "OTP has expired. Please request a new one.", NoToken)
                     ELSE IF CodeMismatch(stored, otp)
                       THEN /\ httpRes' = HttpRes("verify-otp", email, otp, FALSE,
                                 "Invalid OTP. Please check and try again.", NoToken)
                            /\ UNCHANGED otpStore
                       ELSE /\ otpStore' = DeleteOtp(email)
                            /\ httpRes' = HttpRes("verify-otp", email, otp, TRUE,
                                                  "Login successful", token)
  /\ UNCHANGED <<adminEmail, otpNow, electronVars>>

\* the server's clock moves on between two requests
OtpTick ==
  /\ otpNow + OtpTickMinutes <= MaxOtpNow
  /\ otpNow' = otpNow + OtpTickMinutes
  /\ UNCHANGED <<adminEmail, otpStore, httpRes, brevoReq, electronVars>>

\* ============================================================ waitForServer
\* the invocations of waitForServer that can be in progress at once, and the
\* maxAttempts a caller passes
Invocations == {"i1", "i2"}
AttemptArgs == 0..MaxAttempts

\* an invocation that has not been made
NotCalled ==
  [pc |-> "idle", maxAttempts |-> 0, checks |-> 0, starts |-> 0,
   healthy |-> FALSE, result |-> "none"]

\* return false (line 126) / return true (line 104)
ReturnFalse(w) == [w EXCEPT !.pc = "done", !.result = "false"]
ReturnTrue(w) == [w EXCEPT !.pc = "done", !.result = "true"]

\* line 95: while (serverStartAttempts < maxAttempts)
LoopCondition(w, n) == n < w.maxAttempts

\* lines 95-100: the loop test, serverStartAttempts++ and the call of
\* checkServerHealth, or the return after the loop; n is the counter read
LoopHead(i, w, n) ==
  IF LoopCondition(w, n)
    THEN /\ serverStartAttempts' = n + 1
         /\ wait' = [wait EXCEPT ![i] = [w EXCEPT !.pc = "checking", !.checks = @ + 1]]
    ELSE /\ serverStartAttempts' = n
         /\ wait' = [wait EXCEPT ![i] = ReturnFalse(w)]

\* lines 113-116: wait for the interval if attempts are left, else leave the
\* loop (its test reads the same counter and fails)
AfterAttempt(i, w) ==
  /\ wait' = [wait EXCEPT ![i] =
                IF serverStartAttempts < w.maxAttempts
                  THEN [w EXCEPT !.pc = "sleeping"]
                  ELSE ReturnFalse(w)]
  /\ UNCHANGED serverStartAttempts

\* waitForServer(maxAttempts, interval) is called: lines 91-100
Invoke(i, maxAttempts) ==
  /\ wait[i].pc \in {"idle", "done"}
  /\ LoopHead(i, [NotCalled EXCEPT !.maxAttempts = maxAttempts], 0)
  /\ UNCHANGED <<serverProcess, bookings, staff, users, now, ipcResult, mailReq, serverVars>>

StartsOnEveryAttempt(n) == n >= 1

\* line 108: serverStartAttempts === 1
StartsOnFirstAttempt(n) == n = 1

\* checkServerHealth answers: lines 100-116
HealthAnswer(i, isHealthy) ==
  /\ wait[i].pc = "checking"
  /\ LET w == [wait[i] EXCEPT !.healthy = isHealthy]
     IN IF isHealthy
          THEN /\ wait' = [wait EXCEPT ![i] = ReturnTrue(w)]
               /\ UNCHANGED <<serverStartAttempts, serverProcess>>
          ELSE IF StartsOnFirstAttempt(serverStartAttempts)
            THEN \* startBackendServer: kill the old child, spawn, wait 3 s
                 /\ wait' = [wait EXCEPT ![i] =
                               [w EXCEPT !.pc = "starting", !.starts = @ + 1]]
                 /\ serverProcess' = TRUE
                 /\ UNCHANGED serverStartAttempts
            ELSE /\ AfterAttempt(i, w)
                 /\ UNCHANGED serverProcess
  /\ UNCHANGED <<bookings, staff, users, now, ipcResult, mailReq, serverVars>>

\* await startBackendServer() returns: lines 110-116
StartReturns(i) ==
  /\ wait[i].pc = "starting"
  /\ AfterAttempt(i, wait[i])
  /\ UNCHANGED <<serverProcess, bookings, staff, users, now, ipcResult, mailReq, serverVars>>

\* the interval timer fires: line 115, then the loop test
TimerFires(i) ==
  /\ wait[i].pc = "sleeping"
  /\ LoopHead(i, wait[i], serverStartAttempts)
  /\ UNCHANGED <<serverProcess, bookings, staff, users, now, ipcResult, mailReq, serverVars>>

\* serverProcess.on('close' / 'error'): lines 73-81
ServerExits ==
  /\ serverProcess
  /\ serverProcess' = FALSE
  /\ UNCHANGED <<serverStartAttempts, wait, bookings, staff, users, now, ipcResult,
                 mailReq, serverVars>>

\* ========================================================== specifications
InitLauncher ==
  /\ serverStartAttempts = 0
  /\ serverProcess = FALSE
  /\ wait = [i \in Invocations |-> NotCalled]

InitTables ==
  /\ bookings = [id \in BookingIds |-> NewBooking]
  /\ staff = [id \in StaffIds |-> NewStaff]
  /\ users = [id \in UserIds |-> NewUser]
  /\ now = 0
  /\ ipcResult = Result("none", TRUE, NULL, {})
  /\ mailReq = {}
  /\ InitLauncher

InitServer ==
  /\ otpStore = [e \in StoreKeys |-> NoOtp]
  /\ otpNow = 0
  /\ httpRes = HttpRes("none", Undefined, NoCode, FALSE, "", NoToken)
  /\ brevoReq = NoRequest

\* the Electron process is followed with the server at its default address
Init == InitTables /\ InitServer /\ adminEmail = <<"z", "k">>

\* the server is followed under either configured address
InitOtp == InitTables /\ InitServer /\ adminEmail \in AdminEmailConfigs

\* A row after the calls an administrator can make on a new booking at hour
\* 0: set-payment-deadline or not, update-booking-status or not,
\* mark-payment-as-paid or not.
SeedRow(status, setDeadline, paid) ==
  LET r1 == IF setDeadline THEN DeadlineRow(NewBooking) ELSE NewBooking
      r2 == IF status = "pending" THEN r1 ELSE StatusRow(r1, status, "Fully booked")
  IN IF paid THEN PaidRow(r2) ELSE r2

SeedRows == {SeedRow(s, d, p) : s \in StatusArgs, d \in BOOLEAN, p \in BOOLEAN}

\* two bookings, each in any of the states above
InitSweep ==
  /\ now = 0
  /\ bookings \in [SweepBookingIds -> SeedRows]
  /\ staff = [id \in StaffIds |-> NewStaff]
  /\ users = [id \in UserIds |-> NewUser]
  /\ ipcResult = Result("none", TRUE, NULL, {})
  /\ mailReq = {}
  /\ InitLauncher
  /\ InitServer
  /\ adminEmail = <<"z", "k">>

\* the sweep, the payment handlers and the clock over the two bookings
NextSweep ==
  \/ \E f \in BOOLEAN : CheckExpiredBookings(f)
  \/ \E id \in SweepBookingIds, f \in BOOLEAN : MarkPaymentAsPaid(id, f)
  \/ \E id \in SweepBookingIds, f \in BOOLEAN : SetPaymentDeadline(id, f)
  \/ Tick

SpecSweep == InitSweep /\ [][NextSweep]_vars

\* approved bookings with a deadline, over what their user_email can hold
MailRows == {[SeedRow("approved", TRUE, FALSE) EXCEPT !.user_email = e] : e \in UserEmailColumn}

InitMail ==
  /\ now = 0
  /\ bookings \in [SweepBookingIds -> MailRows]
  /\ staff = [id \in StaffIds |-> NewStaff]
  /\ users = [id \in UserIds |-> NewUser]
  /\ ipcResult = Result("none", TRUE, NULL, {})
  /\ mailReq = {}
  /\ InitLauncher
  /\ InitServer
  /\ adminEmail = <<"z", "k">>

\* the sweep and the handlers that make a booking due again
NextMail ==
  \/ \E f \in BOOLEAN : CheckExpiredBookings(f)
  \/ \E id \in SweepBookingIds, f \in BOOLEAN : SetPaymentDeadline(id, f)
  \/ \E id \in SweepBookingIds, f \in BOOLEAN :
       UpdateBookingStatus(id, "approved", NULL, f)
  \/ Tick

SpecMail == InitMail /\ [][NextMail]_vars

\* the booking handlers of the Electron main process
Next ==
  \/ \E id \in BookingIdArgs, s \in StatusArgs, r \in ReasonArgs, f \in BOOLEAN :
       UpdateBookingStatus(id, s, r, f)
  \/ \E id \in BookingIdArgs, f \in BOOLEAN : MarkPaymentAsPaid(id, f)
  \/ \E id \in BookingIdArgs, fb \in FeedbackArgs, f \in BOOLEAN : CompleteBooking(id, fb, f)
  \/ \E id \in BookingIdArgs, f \in BOOLEAN : SetPaymentDeadline(id, f)
  \/ \E f \in BOOLEAN : CheckExpiredBookings(f)
  \/ Tick

Spec == Init /\ [][Next]_vars

\* the clock of the runs that follow the five handlers that write one booking
WriteTick == now + TickHours <= MaxWriteNow /\ Tick

\* the handlers that write the booking with a given id
NextWrites ==
  \/ \E id \in BookingIdArgs, s \in StatusArgs, r \in ReasonArgs, f \in BOOLEAN :
       UpdateBookingStatus(id, s, r, f)
  \/ \E id \in BookingIdArgs, f \in BOOLEAN : MarkPaymentAsPaid(id, f)
  \/ \E id \in BookingIdArgs, f \in BOOLEAN :
       AddServiceCharge(id, ChargeDescription, NewServiceCharge, NewTotal, f)
  \/ \E id \in BookingIdArgs, fb \in FeedbackArgs, f \in BOOLEAN : CompleteBooking(id, fb, f)
  \/ \E id \in BookingIdArgs, f \in BOOLEAN : SetPaymentDeadline(id, f)
  \/ WriteTick

SpecWrites == Init /\ [][NextWrites]_vars

\* the staff and user handlers of the Electron main process
NextAccounts ==
  \/ \E id \in StaffIdArgs, s \in StaffStatusArgs, r \in ReasonArgs, f \in BOOLEAN :
       UpdateStaffStatus(id, s, r, f)
  \/ \E id \in UserIdArgs, s \in UserStatusArgs, f \in BOOLEAN : UpdateUserStatus(id, s, f)
  \/ Tick

SpecAccounts == Init /\ [][NextAccounts]_vars

\* the OTP endpoints of the express server
NextOtp ==
  \/ \E e \in EmailArgs, k \in RandNums, b \in BrevoOutcomes : SendOtp(e, k, b)
  \/ \E e \in EmailArgs, o \in OtpArgs, t \in Tokens : VerifyOtp(e, o, t)
  \/ OtpTick

SpecOtp == InitOtp /\ [][NextOtp]_vars

\* values of Math.random() next to 0 and next to 1
RandCorners == (0..49) \cup ((RandDen - 50)..(RandDen - 1))

\* /api/send-otp for the admin, over the corner values of the random source
NextRandom ==
  \E k \in RandCorners, b \in BrevoOutcomes : SendOtp(adminEmail, k, b)

SpecRandom == InitOtp /\ [][NextRandom]_vars

\* what one invocation of waitForServer does once it has been called
Continue(i) == (\E h \in BOOLEAN : HealthAnswer(i, h)) \/ StartReturns(i) \/ TimerFires(i)

\* one invocation at a time, called again after it has returned
NextWait ==
  \/ \E m \in AttemptArgs : Invoke("i1", m)
  \/ Continue("i1")
  \/ ServerExits

\* every awaited promise settles: axios.get has a 3 s timeout, the others are
\* timers
SpecWait == Init /\ [][NextWait]_vars /\ WF_vars(Continue("i1"))

\* two invocations, each called once, in any interleaving of their steps
NextOverlap ==
  \/ \E i \in Invocations, m \in AttemptArgs \ {0} : wait[i].pc = "idle" /\ Invoke(i, m)
  \/ \E i \in Invocations : Continue(i)
  \/ ServerExits

SpecOverlap == Init /\ [][NextOverlap]_vars

\* ============================================================== properties
\* a step in which an ipcMain handler of the given name ran
HandlerStep(op) == ipcResult'.op = op /\ now' = now

\* the transitions of the booking lifecycle
LifecycleSteps ==
  {<<"pending", "approved">>, <<"pending", "rejected">>,
   <<"approved", "cancelled">>, <<"approved", "completed">>}

\* C1: booking_status changes only along pending->approved, pending->rejected,
\* approved->cancelled and approved->completed; nothing leaves rejected,
\* cancelled or completed, and only a pending booking is approved or rejected.
C1_Lifecycle ==
  [][\A id \in DOMAIN bookings :
       bookings'[id].booking_status # bookings[id].booking_status
         => <<bookings[id].booking_status, bookings'[id].booking_status>> \in LifecycleSteps]_vars

\* C2: a booking whose booking_status is 'completed' has payment_status 'paid'.
C2_CompletedIsPaid ==
  \A id \in DOMAIN bookings :
    bookings[id].booking_status = "completed" => bookings[id].payment_status = "paid"

\* C3: check-expired-bookings never cancels an unpaid booking earlier than 20
\* hours after the time it was set to 'approved'.
C3_NoEarlyExpiry ==
  [][\A id \in DOMAIN bookings :
       ( /\ HandlerStep("check-expired-bookings")
         /\ bookings[id].booking_status = "approved"
         /\ bookings[id].payment_status # "paid"
         /\ bookings'[id].booking_status = "cancelled" )
         => now >= bookings[id].approval_date + PaymentDeadlineHours]_vars

\* C4: a check-expired-bookings run (whose query executes) that finds a booking
\* approved, not paid and approved more than 20 hours ago cancels it.
C4_ExpiredGetsCancelled ==
  [][\A id \in DOMAIN bookings :
       ( /\ HandlerStep("check-expired-bookings")
         /\ ipcResult'.success
         /\ bookings[id].booking_status = "approved"
         /\ bookings[id].payment_status # "paid"
         /\ bookings[id].approval_date # NullTs
         /\ bookings[id].approval_date + PaymentDeadlineHours < now )
         => bookings'[id].booking_status = "cancelled"]_vars

\* C5: a check-expired-bookings run changes (cancels) exactly the bookings that
\* are approved, not paid, with a non-null payment_deadline strictly before
\* now; every other booking keeps all its fields. (A run whose query fails
\* changes nothing.)
C5_SweepFrame ==
  [][HandlerStep("check-expired-bookings") =>
       \A id \in DOMAIN bookings :
         LET b == bookings[id]
             due == /\ b.booking_status = "approved"
                    /\ b.payment_status # "paid"
                    /\ b.payment_deadline # NullTs
                    /\ b.payment_deadline < now
         IN IF due /\ ipcResult'.success
              THEN bookings'[id] # b /\ bookings'[id].booking_status = "cancelled"
              ELSE bookings'[id] = b]_vars

\* the sweep has just cancelled one booking and left alone another that is
\* approved and past its deadline, but paid
C5_Witness ==
  /\ ipcResult.op = "check-expired-bookings"
  /\ \E id \in ipcResult.rows : bookings[id].booking_status = "cancelled"
  /\ \E id \in DOMAIN bookings \ ipcResult.rows :
       /\ bookings[id].booking_status = "approved"
       /\ bookings[id].payment_status = "paid"
       /\ bookings[id].payment_deadline # NullTs
       /\ bookings[id].payment_deadline < now

\* C6: a booking whose booking_status is 'cancelled' has a non-null, non-empty
\* cancellation_reason.
C6_CancelledHasReason ==
  \A id \in DOMAIN bookings :
    bookings[id].booking_status = "cancelled"
      => bookings[id].cancellation_reason # NULL /\ bookings[id].cancellation_reason # ""

\* C7: every booking's booking_status is one of pending, approved, rejected,
\* cancelled, completed.
C7_StatusDeclared ==
  \A id \in DOMAIN bookings : bookings[id].booking_status \in BookingStatuses

\* C8: payment_status is always unpaid or paid; it is changed only by
\* mark-payment-as-paid, only to 'paid'; a paid booking stays paid.
C8_PaymentStatus ==
  /\ [](\A id \in DOMAIN bookings : bookings[id].payment_status \in {"unpaid", "paid"})
  /\ [][\A id \in DOMAIN bookings :
          bookings'[id].payment_status # bookings[id].payment_status
            => /\ HandlerStep("mark-payment-as-paid")
               /\ bookings'[id].payment_status = "paid"]_vars
  /\ [][\A id \in DOMAIN bookings :
          bookings[id].payment_status = "paid" => bookings'[id].payment_status = "paid"]_vars

\* a paid booking on which a later handler has run
C8_Witness ==
  /\ ipcResult.op \in {"complete-booking", "update-booking-status", "mark-payment-as-paid"}
  /\ ipcResult.success
  /\ \E id \in ipcResult.rows :
       /\ bookings[id].payment_status = "paid"
       /\ bookings[id].booking_status = "completed"

\* C9: every staff status is in {pending, approved, rejected, suspended} and
\* every user status is in {active, blocked}.
C9_AccountStatusDeclared ==
  /\ \A id \in StaffIds : staff[id].status \in StaffStatuses
  /\ \A id \in UserIds : users[id].status \in UserStatuses

\* two addresses are the same up to letter case
SameLetter(c, d) == c = d \/ {c, d} = {"z", "Z"} \/ {c, d} = {"k", "K"}
EqualsIgnoreCase(a, b) ==
  Len(a) = Len(b) /\ \A i \in 1..Len(a) : SameLetter(a[i], b[i])

\* C10: a request whose email differs from the admin email, compared without
\* regard to letter case, is answered success:false without a token, leaves
\* the OTP store as it was and posts nothing to the e-mail provider; the store
\* never holds an OTP under such an email.
C10_NonAdminGetsNothing ==
  /\ [](\A e \in StoreKeys : ~EqualsIgnoreCase(e, adminEmail) => otpStore[e] = NoOtp)
  /\ [][( /\ httpRes'.op \in {"send-otp", "verify-otp"}
          /\ otpNow' = otpNow
          /\ ~EqualsIgnoreCase(httpRes'.email, adminEmail) )
          => /\ ~httpRes'.success
             /\ httpRes'.token = NoToken
             /\ otpStore' = otpStore
             /\ brevoReq' = NoRequest]_vars

\* a non-admin address has just been refused while an OTP is in the store
C10_Witness ==
  /\ httpRes.op \in {"send-otp", "verify-otp"}
  /\ httpRes.email = <<"k", "z">>
  /\ ~httpRes.success
  /\ \E e \in StoreKeys : otpStore[e] # NoOtp

\* a step in which the express server answered a request to the given endpoint
HttpStep(op) == httpRes'.op = op /\ otpNow' = otpNow

\* C11: an OTP stored at time t expires at t + 5 minutes; a verify request
\* that finds it after that time is rejected whatever code it carries, and
\* the rejection removes the OTP; no request is accepted after t + 5.
C11_OtpExpiry ==
  /\ [][(HttpStep("send-otp") /\ brevoReq' # NoRequest)
          => otpStore'[httpRes'.email].expires = otpNow + 5]_vars
  /\ [][(HttpStep("verify-otp") /\ httpRes'.email \in StoreKeys)
          => LET stored == otpStore[httpRes'.email]
             IN stored # NoOtp
                  => /\ otpNow > stored.expires
                          => ~httpRes'.success /\ otpStore'[httpRes'.email] = NoOtp
                     /\ httpRes'.success => otpNow <= stored.expires]_vars

\* a request carrying a code that send-otp issues has been rejected as
\* expired, and the OTP is gone
C11_Witness ==
  /\ httpRes.op = "verify-otp"
  /\ httpRes.message = "OTP has expired. Please request a new one."
  /\ httpRes.otp = GenerateOtp(0)
  /\ otpNow > 5
  /\ otpStore[httpRes.email] = NoOtp

\* C12: a successful verification consumes the OTP: the store holds none for
\* that email afterwards, a verify that finds none fails with 'not found' (so
\* does the same request repeated after a success), only send-otp puts an OTP
\* into the store, and a token is returned only by a successful verification.
C12_SingleUse ==
  /\ [][(HttpStep("verify-otp") /\ httpRes'.success)
          => otpStore'[httpRes'.email] = NoOtp]_vars
  /\ [][(HttpStep("verify-otp") /\ httpRes'.email \in StoreKeys
          /\ otpStore[httpRes'.email] = NoOtp)
          => /\ ~httpRes'.success
             /\ EqualsIgnoreCase(httpRes'.email, adminEmail)
                  => httpRes'.message = "OTP expired or not found. Please request a new one."]_vars
  /\ [][\A e \in StoreKeys :
          (otpStore[e] = NoOtp /\ otpStore'[e] # NoOtp)
            => HttpStep("send-otp") /\ httpRes'.email = e]_vars
  /\ [][(httpRes.op = "verify-otp" /\ httpRes.success /\ HttpStep("verify-otp")
          /\ httpRes'.email = httpRes.email /\ httpRes'.otp = httpRes.otp)
          => /\ ~httpRes'.success
             /\ httpRes'.message = "OTP expired or not found. Please request a new one."]_vars
  /\ [](httpRes.token # NoToken => httpRes.op = "verify-otp" /\ httpRes.success)

\* a verification has just succeeded: a token is out and the OTP is consumed
C12_Witness ==
  /\ httpRes.op = "verify-otp"
  /\ httpRes.success
  /\ httpRes.token \in Tokens
  /\ otpStore[httpRes.email] = NoOtp

\* the number a string of decimal digits denotes
DigitValue(c) == CHOOSE d \in 0..9 : Digits[d + 1] = c
RECURSIVE DecimalValue(_)
DecimalValue(s) == IF s = <<>> THEN 0
                   ELSE (10 * DecimalValue(SubSeq(s, 1, Len(s) - 1))) + DigitValue(s[Len(s)])
SixDigits(s) ==
  /\ Len(s) = 6
  /\ \A i \in 1..Len(s) : \E d \in 0..9 : Digits[d + 1] = s[i]
  /\ s[1] # "0"
  /\ DecimalValue(s) >= 100000
  /\ DecimalValue(s) <= 999999

\* C13: every OTP send-otp generates is a string of exactly 6 decimal digits
\* denoting a number in 100000..999999.
C13_SixDigitOtp ==
  /\ \A e \in StoreKeys : otpStore[e] # NoOtp => SixDigits(otpStore[e].otp)
  /\ brevoReq # NoRequest => SixDigits(brevoReq.otp)

\* the largest value of the random source has produced 999999
C13_Witness ==
  /\ httpRes.op = "send-otp"
  /\ brevoReq.otp = <<"9", "9", "9", "9", "9", "9">>
  /\ otpStore[httpRes.email].otp = <<"9", "9", "9", "9", "9", "9">>

\* the fields update-booking-status has no SET clause for and C14 names
SameMoney(b, c) ==
  /\ c.payment_status = b.payment_status
  /\ c.payment_deadline = b.payment_deadline
  /\ c.package_price = b.package_price
  /\ c.service_charge = b.service_charge
  /\ c.charge_description = b.charge_description
  /\ c.total_price = b.total_price

\* C14: update-booking-status on an existing booking writes 'rejected' and the
\* reason for status 'rejected' with a non-empty reason; a NULL reason and
\* approval_date = now for 'approved'; a NULL reason in any other case; and
\* never changes payment_status, payment_deadline or the pricing fields.
C14_StatusWrite ==
  [][\A id \in BookingIds, s \in StatusArgs, r \in ReasonArgs :
       (HandlerStep("update-booking-status") /\ UpdateBookingStatus(id, s, r, FALSE))
         => LET b == bookings[id]
                c == bookings'[id]
            IN /\ (s = "rejected" /\ r # NULL /\ r # "")
                    => c.booking_status = "rejected" /\ c.cancellation_reason = r
               /\ s = "approved"
                    => c.cancellation_reason = NULL /\ c.approval_date = now
               /\ ~(s = "rejected" /\ r # NULL /\ r # "")
                    => c.cancellation_reason = NULL
               /\ SameMoney(b, c)]_vars

\* a paid booking with a deadline and a service charge has been rejected with
\* a reason
C14_Witness ==
  /\ ipcResult = Result("update-booking-status", TRUE, NULL, {"b1"})
  /\ bookings["b1"].booking_status = "rejected"
  /\ bookings["b1"].cancellation_reason = "Fully booked"
  /\ bookings["b1"].payment_status = "paid"
  /\ bookings["b1"].payment_deadline # NullTs
  /\ bookings["b1"].total_price = NewTotal

\* the answer for an id that matches no row, with the table left alone
NotFoundAnswer(op) ==
  /\ ipcResult' = Result(op, FALSE, "Booking not found", {})
  /\ bookings' = bookings

\* the answer when the query throws, with the table left alone
FailedAnswer(op) ==
  /\ ipcResult'.op = op
  /\ ~ipcResult'.success
  /\ ipcResult'.error # NULL
  /\ bookings' = bookings

\* C15: called with an id that matches no booking, update-booking-status,
\* mark-payment-as-paid, add-service-charge, complete-booking and
\* set-payment-deadline return {success: false, error: 'Booking not found'}
\* and change no booking; when the query fails they return {success: false,
\* error} and change no booking.
C15_NotFoundOrFailed ==
  /\ [][HandlerStep("update-booking-status")
          => \A s \in StatusArgs, r \in ReasonArgs :
               /\ UpdateBookingStatus(NoSuchBooking, s, r, FALSE)
                    => NotFoundAnswer("update-booking-status")
               /\ \A id \in BookingIdArgs :
                    UpdateBookingStatus(id, s, r, TRUE)
                      => FailedAnswer("update-booking-status")]_vars
  /\ [][HandlerStep("mark-payment-as-paid")
          => /\ MarkPaymentAsPaid(NoSuchBooking, FALSE)
                  => NotFoundAnswer("mark-payment-as-paid")
             /\ \A id \in BookingIdArgs :
                  MarkPaymentAsPaid(id, TRUE) => FailedAnswer("mark-payment-as-paid")]_vars
  /\ [][HandlerStep("add-service-charge")
          => /\ AddServiceCharge(NoSuchBooking, ChargeDescription, NewServiceCharge,
                                 NewTotal, FALSE)
                  => NotFoundAnswer("add-service-charge")
             /\ \A id \in BookingIdArgs :
                  AddServiceCharge(id, ChargeDescription, NewServiceCharge, NewTotal, TRUE)
                    => FailedAnswer("add-service-charge")]_vars
  /\ [][HandlerStep("complete-booking")
          => \A fb \in FeedbackArgs :
               /\ CompleteBooking(NoSuchBooking, fb, FALSE)
                    => NotFoundAnswer("complete-booking")
               /\ \A id \in BookingIdArgs :
                    CompleteBooking(id, fb, TRUE) => FailedAnswer("complete-booking")]_vars
  /\ [][HandlerStep("set-payment-deadline")
          => /\ SetPaymentDeadline(NoSuchBooking, FALSE)
                  => NotFoundAnswer("set-payment-deadline")
             /\ \A id \in BookingIdArgs :
                  SetPaymentDeadline(id, TRUE) => FailedAnswer("set-payment-deadline")]_vars

\* add-service-charge was called with an unknown id on a table whose booking
\* had been approved
C15_Witness ==
  /\ ipcResult = Result("add-service-charge", FALSE, "Booking not found", {})
  /\ bookings["b1"].booking_status = "approved"

\* C16: whatever the order of mark-payment-as-paid and check-expired-bookings
\* on a booking, the booking is never 'cancelled' with the 20-hour deadline
\* reason and 'paid' at the same time.
C16_NeverCancelledAndPaid ==
  \A id \in DOMAIN bookings :
    ~(/\ bookings[id].booking_status = "cancelled"
      /\ bookings[id].cancellation_reason = DeadlineReason
      /\ bookings[id].payment_status = "paid")

\* the bookings whose status a step changed
StatusChanged == {id \in DOMAIN bookings :
                    bookings'[id].booking_status # bookings[id].booking_status}

\* C17: after a run of check-expired-bookings, a second run at once selects
\* no row and leaves the table as it is (cancelled: 0, empty list); and the
\* count a run reports is the number of bookings whose status it changed.
C17_SweepIdempotent ==
  [][(HandlerStep("check-expired-bookings") /\ ipcResult'.success)
       => /\ ExpiredRows(bookings') = {}
          /\ SweptTable(bookings') = bookings'
          /\ CancellationMails(bookings', ExpiredRows(bookings')) = {}
          /\ ipcResult'.rows = StatusChanged
          /\ Cardinality(ipcResult'.rows) = Cardinality(StatusChanged)]_vars

\* a run that found nothing to cancel right after a run that cancelled
C17_Witness ==
  /\ ipcResult = Result("check-expired-bookings", TRUE, NULL, {})
  /\ mailReq = {}
  /\ \E id \in DOMAIN bookings :
       /\ bookings[id].booking_status = "cancelled"
       /\ bookings[id].cancellation_reason = DeadlineReason
       /\ bookings[id].updated_at = now

C19_OnlyLatestCode ==
  [][(brevoReq # NoRequest /\ HttpStep("verify-otp") /\ httpRes'.success)
       => httpRes'.otp = brevoReq.otp]_vars

\* C20: after send-otp answered success:false for a request that had reached
\* the e-mail provider call, a verify-otp request for the same email with the
\* code generated in that request does not succeed.
C20_FailedSendUnusable ==
  [][(/\ httpRes.op = "send-otp"
      /\ ~httpRes.success
      /\ brevoReq # NoRequest
      /\ HttpStep("verify-otp")
      /\ httpRes'.email = httpRes.email
      /\ httpRes'.otp = brevoReq.otp)
       => ~httpRes'.success]_vars

\* an authorised verify-otp step that finds a stored OTP with a code other
\* than the one of the request
WrongCodeStep ==
  /\ HttpStep("verify-otp")
  /\ httpRes'.email \in StoreKeys
  /\ EqualsIgnoreCase(httpRes'.email, adminEmail)
  /\ otpStore[httpRes'.email] # NoOtp
  /\ httpRes'.otp # otpStore[httpRes'.email].otp

\* C21 as stated: a verify-otp request with a wrong code for the admin email
\* is rejected and leaves the stored OTP and its expiry unchanged.
C21_WrongCodeKeepsOtp ==
  [][WrongCodeStep => ~httpRes'.success /\ otpStore' = otpStore]_vars

\* C21 amended: a verify-otp request with a wrong code is always rejected; while
\* the stored OTP has not expired it is rejected as invalid and leaves the
\* stored OTP and its expiry unchanged, and a request with the stored code
\* inside the expiry window succeeds; once the OTP has expired, the wrong-code
\* request removes it.
C21_WrongCodeInWindow ==
  /\ [][WrongCodeStep
          => /\ ~httpRes'.success
             /\ otpNow <= otpStore[httpRes'.email].expires
                  => /\ otpStore' = otpStore
                     /\ httpRes'.message = "Invalid OTP. Please check and try again."
             /\ otpNow > otpStore[httpRes'.email].expires
                  => otpStore' = [otpStore EXCEPT ![httpRes'.email] = NoOtp]]_vars
  /\ [][(/\ HttpStep("verify-otp")
         /\ httpRes'.email \in StoreKeys
         /\ EqualsIgnoreCase(httpRes'.email, adminEmail)
         /\ otpStore[httpRes'.email] # NoOtp
         /\ httpRes'.otp = otpStore[httpRes'.email].otp
         /\ otpNow <= otpStore[httpRes'.email].expires)
          => httpRes'.success]_vars

\* a wrong code has been rejected as invalid at the last minute of the window
\* and the stored OTP is still there
C21_Witness ==
  /\ httpRes.op = "verify-otp"
  /\ httpRes.message = "Invalid OTP. Please check and try again."
  /\ otpStore[httpRes.email] # NoOtp
  /\ otpStore[httpRes.email].otp # httpRes.otp
  /\ otpNow = otpStore[httpRes.email].expires

\* C22: an unexpired OTP issued for one spelling of the admin email is
\* accepted, with the correct code, by a verify-otp request for any spelling
\* of the admin email that differs only in letter case.
C22_AnySpellingAccepted ==
  [][(/\ HttpStep("verify-otp")
      /\ httpRes'.email \in StoreKeys
      /\ EqualsIgnoreCase(httpRes'.email, adminEmail)
      /\ \E e \in StoreKeys :
           /\ EqualsIgnoreCase(e, httpRes'.email)
           /\ otpStore[e] # NoOtp
           /\ otpStore[e].otp = httpRes'.otp
           /\ otpNow <= otpStore[e].expires)
       => httpRes'.success]_vars

\* an invocation of waitForServer that has been called and has not returned
Running(i) == wait[i].pc \in {"checking", "starting", "sleeping"}

\* C23: a single waitForServer(maxAttempts, interval) call terminates, makes at
\* most maxAttempts health checks, returns true exactly when one of its checks
\* found the server healthy (and false only after maxAttempts unhealthy
\* checks), and calls startBackendServer at most once, only after its first
\* check and only when that check was unhealthy.
C23_SingleWait ==
  /\ Running("i1") ~> wait["i1"].pc = "done"
  /\ [](wait["i1"].checks <= wait["i1"].maxAttempts)
  /\ [](wait["i1"].starts <= 1)
  /\ [](wait["i1"].pc = "done"
          => /\ wait["i1"].result \in {"true", "false"}
             /\ wait["i1"].result = "true" <=> wait["i1"].healthy
             /\ wait["i1"].result = "false"
                  => wait["i1"].checks = wait["i1"].maxAttempts)
  /\ [](wait["i1"].pc # "done" => wait["i1"].result = "none" /\ ~wait["i1"].healthy)
  /\ [][wait'["i1"].starts > wait["i1"].starts
          => /\ wait["i1"].pc = "checking"
             /\ wait["i1"].checks = 1
             /\ ~wait'["i1"].healthy]_vars

\* a call with the largest maxAttempts has returned false after starting the
\* backend once
C23_Witness ==
  /\ wait["i1"].pc = "done"
  /\ wait["i1"].result = "false"
  /\ wait["i1"].maxAttempts = MaxAttempts
  /\ wait["i1"].checks = MaxAttempts
  /\ wait["i1"].starts = 1

\* C24: when invocations of waitForServer overlap, each makes at most its own
\* maxAttempts health checks and calls startBackendServer at most once.
C24_OverlapKeepsLimits ==
  \A i \in Invocations :
    /\ wait[i].checks <= wait[i].maxAttempts
    /\ wait[i].starts <= 1

====
